---- MODULE Spec2Model ----
(***************************************************************************)
(* A model of the numerical core of PowderGui (src/core.py): the radial    *)
(* averager, the inelastic background subtractor, the center refiner and   *)
(* the peak functions; of parse_range (src/iris/gui/processing_dialog.py)  *)
(* and of the ExperimentalParameter descriptor (src/iris/meta.py).         *)
(*                                                                         *)
(* Floating-point numbers are modelled by exact rationals (a numerator and *)
(* a positive denominator in lowest terms), plus the two non-finite values *)
(* numpy produces instead of raising: nan and inf.                         *)
(***************************************************************************)
EXTENDS Integers, Sequences, FiniteSets, TLC

VARIABLES
    \* ---- radialAverage (src/core.py:96-159)
    ra_pc,          \* "ready" | "loop" | "done"
    image,          \* [n |-> N, px |-> [Pixels(N) -> value]], indexed (row i, column j)
    center,         \* <<xc, yc>>, the center argument
    R,              \* the rounded radius of every pixel (line 120)
    unique_radii,   \* line 131
    accumulation,   \* line 132
    bincount,       \* line 133
    ra_pos,         \* how many pixels n.ndenumerate has yielded so far
    ra_added,       \* the pixels the loop has accumulated (lines 151-156)
    ra_result,      \* <<radius, intensity>> once returned, <<>> before
    \* ---- inelasticBGSubstract (src/core.py:164-206)
    bg_pc,          \* "ready" | "chunk" | "fit" | "interp" | "done" | "error"
    xdata,          \* [0 .. N-1 -> x], strictly increasing
    ydata,          \* [0 .. N-1 -> y]
    points,         \* the sequence of <<x, y>> feature markers
    chunk_size,
    xfeatures,      \* line 181
    bg_k,           \* the position of the running loop in its sequence
    chunk_inds,     \* the nearest index found for each feature (line 185)
    xchunks,        \* line 187
    ychunks,        \* line 188
    constants,      \* line 195: one array of the fitted constant per chunk
    fits,           \* the calls of opt.curve_fit so far, with their outcome
    stdout,         \* what the print statements of lines 199 and 201 wrote
    background,     \* the second component of the returned list, <<>> before
    bg_error,       \* the exception that ended the call, NoError before
    \* ---- fCenter and circ (src/core.py:32-90)
    fc_pc,          \* "ready" | "minimize" | "returned"
    im,             \* the image, [s |-> side, a |-> , b |-> ]: see ImValue
    guess,          \* <<xg, yg, rg>>
    int_args,       \* TRUE when xg, yg, rg and scalefactor are Python ints
    scalefactor,    \* the scalefactor argument of fCenter
    opt_x,          \* the best point of the minimizer, in its own coordinates
    opt_f,          \* the cost at opt_x
    opt_nfev,       \* how many trial points the minimizer has evaluated
    opt_success,    \* OptimizeResult.success
    circ_calls,     \* what each call of circ sampled: "pixels" or "empty"
    fc_result,      \* the returned triple, <<>> before
    \* ---- pseudoVoigt, Gaussian and Lorentzian (src/core.py:14-26)
    pv_pc,          \* "ready" | "done"
    pv_args,        \* [x, height, xc, width_g, width_l, constant]
    pv_result,      \* the value returned or the exception raised, NaN before
    \* ---- parse_range (src/iris/gui/processing_dialog.py:339-387)
    pr_pc,          \* "ready" | "done"
    range_str,      \* the argument, a sequence of characters
    pr_result,      \* [kind |-> "list" or "ValueError", val |-> the list]
    \* ---- ExperimentalParameter on one instance (src/iris/meta.py:59-94)
    ep_pc,          \* "live" once the descriptor and the instance exist
    ep_type,        \* self.type: "int" or "float"
    ep_default,     \* self.default
    ep_dict,        \* instance.__dict__ at self.name: <<>> or <<value>>
    ep_log,         \* the assignments so far: value, exception, __dict__ before and after
    ep_read,        \* what the reads so far returned
    \* ---- ProcessingDialog.accept and MaskCreator.composite_mask
    \*      (src/iris/gui/processing_dialog.py:116-142, 305-337)
    dlg_pc,         \* "open" | "accepted" | "raised"
    resolution,     \* MaskCreator.resolution: the shape of the image
    circ_masks,     \* MaskCreator.circ_masks
    rect_masks,     \* MaskCreator.rect_masks
    numpy_strict,   \* whether numpy rejects a boolean index of another shape
    dlg_calls,      \* the invocations of accept so far: file name and text
    dlg_events,     \* the signals emitted, the acceptance, the exception raised
    \* ---- MetaRawDataset and MetaHDF5Dataset (src/iris/meta.py:8-57)
    meta,           \* the metaclass of the classes: its name
    classes         \* the classes created so far, each with its bases (positions
                    \* in this sequence), its body and its valid_metadata

ra_vars == <<ra_pc, image, center, R, unique_radii, accumulation, bincount,
             ra_pos, ra_added, ra_result>>

bg_vars == <<bg_pc, xdata, ydata, points, chunk_size, xfeatures, bg_k,
             chunk_inds, xchunks, ychunks, constants, fits, stdout,
             background, bg_error>>

fc_vars == <<fc_pc, im, guess, int_args, scalefactor, opt_x, opt_f, opt_nfev, opt_success,
             circ_calls, fc_result>>

pv_vars == <<pv_pc, pv_args, pv_result>>

pr_vars == <<pr_pc, range_str, pr_result>>

ep_vars == <<ep_pc, ep_type, ep_default, ep_dict, ep_log, ep_read>>

dlg_vars == <<dlg_pc, resolution, circ_masks, rect_masks, numpy_strict, dlg_calls,
              dlg_events>>

mc_vars == <<meta, classes>>

vars == <<ra_vars, bg_vars, fc_vars, pv_vars, pr_vars, ep_vars, dlg_vars, mc_vars>>

-----------------------------------------------------------------------------
(* Bounds of the model *)

\* Largest image side N (images are N x N, N in 0..MaxN).
MaxN == 3
\* Largest pixel value of the image family.
MaxVal == 2
\* How far outside the image, on each side, the center may lie.
Far == 3
\* Length of the curve (xdata, ydata) given to inelasticBGSubstract.
NData == 11
\* Largest number of feature points.
MaxPoints == 2
\* Largest chunk_size (half-width of a window, in samples).
MaxChunk == 2
\* The constants a successful fit may return are 1 .. MaxConst.
MaxConst == 2
\* Largest number of trial points the minimizer evaluates before it gives up.
MaxEvals == 2
\* The widths of the peak functions are the ints 1 .. MaxWidth and the floats
\* 1/2 .. MaxWidth/2.
MaxWidth == 3
\* Largest length of the string given to parse_range.
MaxLen == 5
\* Largest number of elements a range may have for a list to take it
\* (sys.maxsize in CPython, scaled down to the numbers MaxLen characters can
\* write).
MaxListLen == 100
\* Largest number of assignments and reads of the parameter of one instance.
MaxOps == 3
\* Largest side of the image of the mask creator (sides are 2 .. MaxSide).
MaxSide == 3
\* Largest number of invocations of accept on one dialog.
MaxAccepts == 2
\* Largest number of classes created with the metaclass.
MaxClasses == 3

-----------------------------------------------------------------------------
(* Numbers *)

Abs(a) == IF a < 0 THEN -a ELSE a

RECURSIVE GCD(_, _)
GCD(a, b) == IF b = 0 THEN a ELSE GCD(b, a % b)

\* The float num/den, den > 0, as an exact rational in lowest terms.
Rat(num, den) ==
    LET g == GCD(Abs(num), den)
    IN  [kind |-> "num", n |-> num \div g, d |-> den \div g]

NaN == [kind |-> "nan", n |-> 0, d |-> 0]
Inf == [kind |-> "inf", n |-> 0, d |-> 0]
Zero == Rat(0, 1)

\* numpy's true division of two finite floats: x/0 is inf (nan for 0/0) with
\* a warning, never an exception.
Divide(num, den) ==
    IF den = 0 THEN (IF num = 0 THEN NaN ELSE Inf) ELSE Rat(num, den)

\* The largest m >= 0 with (m*d)^2 <= a, for a >= 0 and d > 0.
RECURSIVE FloorRoot(_, _, _)
FloorRoot(a, d, m) ==
    IF ((m + 1) * d) * ((m + 1) * d) > a THEN m ELSE FloorRoot(a, d, m + 1)

\* n.around(n.sqrt(a)/d): the nearest integer, a tie going to the even one.
RoundSqrt(a, d) ==
    LET m == FloorRoot(4 * a, d, 0)        \* floor(2*sqrt(a)/d)
        r == m \div 2
    IN  IF m % 2 = 0 THEN r
        ELSE IF (m * d) * (m * d) = 4 * a  \* exactly r + 1/2
             THEN (IF r % 2 = 0 THEN r ELSE r + 1)
             ELSE r + 1

-----------------------------------------------------------------------------
(* radialAverage *)

Pixels(N) == (0 .. N - 1) \X (0 .. N - 1)

\* The images the model draws from: N x N, values in 0..MaxVal.
Images ==
    UNION { { [n |-> N, px |-> [p \in Pixels(N) |-> (a * p[1] + b * p[2] + c) % (MaxVal + 1)]]
              : a \in 0 .. 1, b \in 0 .. 1, c \in 0 .. MaxVal }
            : N \in 0 .. MaxN }

Centers == (-Far .. MaxN + Far) \X (-Far .. MaxN + Far)

\* n.linspace(0, N, N)[k] = k*N/(N-1) (0 when N = 1), as numerator and
\* denominator: the grid runs from 0 to N inclusive, so it is not the index.
LinspaceNum(k, N) == IF N = 1 THEN 0 ELSE k * N
LinspaceDen(N) == IF N = 1 THEN 1 ELSE N - 1

\* R[i,j] of line 120. n.meshgrid(x, y) gives X[i,j] = x[j] and Y[i,j] = y[i]:
\* the column index j runs along x (against xc), the row index i along y
\* (against yc).
RadiusOf(i, j, N, c) ==
    LET d  == LinspaceDen(N)
        dx == LinspaceNum(j, N) - c[1] * d
        dy == LinspaceNum(i, N) - c[2] * d
    IN  RoundSqrt(dx * dx + dy * dy, d)

RadiusGrid(N, c) == [p \in Pixels(N) |-> RadiusOf(p[1], p[2], N, c)]

\* The ascending sequence of the elements of a finite set of integers.
RECURSIVE SortedSeq(_)
SortedSeq(S) ==
    IF S = {} THEN <<>>
    ELSE LET m == CHOOSE x \in S : \A y \in S : x <= y
         IN  <<m>> \o SortedSeq(S \ {m})

Unique_Descending(grid) ==
    LET u == SortedSeq({grid[p] : p \in DOMAIN grid})
    IN  [k \in 1 .. Len(u) |-> u[Len(u) + 1 - k]]

\* n.unique(radius): sorted, without duplicates (line 131).
Unique(grid) == SortedSeq({grid[p] : p \in DOMAIN grid})

\* n.where(unique_radii == r): the positions holding r (line 153).
Where(radii, r) == {k \in 1 .. Len(radii) : radii[k] = r}

\* The k-th pixel n.ndenumerate yields: row-major order (line 142).
PixelAt(k, N) == <<k \div N, k % N>>

\* n.zeros_like(unique_radii) (line 132): the sums start at 0.
ZerosLike_Ones(u) == [k \in 1 .. Len(u) |-> 1]
ZerosLike(u) == [k \in 1 .. Len(u) |-> 0]

\* n.ones_like(unique_radii) (line 133): every count starts at 1, not 0.
OnesLike_Zeros(u) == [k \in 1 .. Len(u) |-> 0]
OnesLike(u) == [k \in 1 .. Len(u) |-> 1]

\* "Ignore top half image" (lines 148-149): the test that skips a pixel.
Skipped(i, j, c) == i < c[1]

\* radialAverage touches nothing but its own locals.
RAFrame == UNCHANGED <<bg_vars, fc_vars, pv_vars, pr_vars, ep_vars, dlg_vars, mc_vars>>

RAInit ==
    /\ ra_pc = "ready"
    /\ image \in Images
    /\ center \in Centers
    /\ R = <<>>
    /\ unique_radii = <<>>
    /\ accumulation = <<>>
    /\ bincount = <<>>
    /\ ra_pos = 0
    /\ ra_added = {}
    /\ ra_result = <<>>

\* Lines 114-133: everything before the loop.
RAPrepare ==
    /\ ra_pc = "ready"
    /\ LET grid == RadiusGrid(image.n, center)
           u    == Unique(grid)
       IN  /\ R' = grid
           /\ unique_radii' = u
           /\ accumulation' = ZerosLike(u)
           /\ bincount' = OnesLike(u)
    /\ ra_pc' = "loop"
    /\ UNCHANGED <<image, center, ra_pos, ra_added, ra_result>>
    /\ RAFrame

\* Lines 142-156: one iteration of the loop over the image.
RAStep ==
    /\ ra_pc = "loop"
    /\ ra_pos < image.n * image.n
    /\ LET p == PixelAt(ra_pos, image.n)
       IN  \/ /\ Skipped(p[1], p[2], center)
              /\ UNCHANGED <<accumulation, bincount, ra_added>>
           \/ /\ ~Skipped(p[1], p[2], center)
              /\ LET ind == Where(unique_radii, R[p])
                 IN  /\ accumulation' =
                          [k \in DOMAIN accumulation |->
                              IF k \in ind THEN accumulation[k] + image.px[p]
                              ELSE accumulation[k]]
                     /\ bincount' =
                          [k \in DOMAIN bincount |->
                              IF k \in ind THEN bincount[k] + 1 ELSE bincount[k]]
              /\ ra_added' = ra_added \cup {p}
    /\ ra_pos' = ra_pos + 1
    /\ UNCHANGED <<ra_pc, image, center, R, unique_radii, ra_result>>
    /\ RAFrame

\* Line 159: the normalized radial average.
RAReturn ==
    /\ ra_pc = "loop"
    /\ ra_pos = image.n * image.n
    /\ ra_result' = <<unique_radii,
                      [k \in DOMAIN accumulation |-> Divide(accumulation[k], bincount[k])]>>
    /\ ra_pc' = "done"
    /\ UNCHANGED <<image, center, R, unique_radii, accumulation, bincount,
                   ra_pos, ra_added>>
    /\ RAFrame

RANext == RAPrepare \/ RAStep \/ RAReturn

\* No call of radialAverage is in progress.
RAIdle ==
    /\ ra_pc = "idle"
    /\ image = [n |-> 0, px |-> <<>>]
    /\ center = <<0, 0>>
    /\ R = <<>>
    /\ unique_radii = <<>>
    /\ accumulation = <<>>
    /\ bincount = <<>>
    /\ ra_pos = 0
    /\ ra_added = {}
    /\ ra_result = <<>>

-----------------------------------------------------------------------------
(* inelasticBGSubstract *)

NoError == [kind |-> "none", feature |-> 0]

\* An exception as the caller sees it. None of the exceptions numpy and scipy
\* raise here carries the feature being processed: feature is always 0.
Raised(kind) == [kind |-> kind, feature |-> 0]

\* The curves the model draws from: xdata is strictly increasing (a radius
\* axis), of length 0, 1 or NData, with a spacing of 2 so that a feature can
\* fall half-way between two samples.
Curves ==
    { [x |-> [i \in 0 .. N - 1 |-> 2 * i],
       y |-> [i \in 0 .. N - 1 |-> 1 + ((a * i) % 3)]]
      : N \in {0, 1, NData}, a \in 0 .. 1 }

\* The feature markers the model draws from: below the curve, on a sample,
\* half-way between two samples, and above the curve.
Markers ==
    { <<-1, 0>>, <<4, 0>>, <<4, 3>>, <<5, 1>>, <<7, 0>>, <<8, 2>>, <<16, 0>>, <<21, 5>> }

PointLists == UNION { [1 .. k -> Markers] : k \in 0 .. MaxPoints }

\* n.asarray(points)[:,0] (line 181): the x-component of every point. An
\* empty list makes a 1-d array of shape (0,), and indexing it with two
\* indices raises IndexError: the call ends there.
XFeatures_EmptyReturns(pts) ==
    IF pts = <<>>
    THEN [pc |-> "done", err |-> NoError, xf |-> <<>>]
    ELSE [pc |-> "chunk", err |-> NoError, xf |-> [k \in 1 .. Len(pts) |-> pts[k][1]]]
XFeatures(pts) ==
    IF pts = <<>>
    THEN [pc |-> "error", err |-> Raised("IndexError"), xf |-> <<>>]
    ELSE [pc |-> "chunk", err |-> NoError, xf |-> [k \in 1 .. Len(pts) |-> pts[k][1]]]

\* n.argmin(n.abs(xdata - feature)) (line 185): the first index of a minimum.
ArgMin(xs, feature) ==
    CHOOSE i \in DOMAIN xs :
        /\ \A j \in DOMAIN xs : Abs(xs[i] - feature) <= Abs(xs[j] - feature)
        /\ \A j \in DOMAIN xs : Abs(xs[j] - feature) = Abs(xs[i] - feature) => i <= j

\* n.arange(ind - chunk_size, ind + chunk_size + 1) (line 186).
ChunkInd(ind, cs) == [k \in 1 .. 2 * cs + 1 |-> ind - cs + k - 1]

\* Indexing a 1-d array of length N with an array of integers (lines 187 and
\* 188): an index in -N .. -1 counts from the end, an index outside -N .. N-1
\* raises IndexError.
IndexInRange(idx, N) == \A k \in DOMAIN idx : -N <= idx[k] /\ idx[k] <= N - 1

Take(arr, idx) ==
    LET N == Cardinality(DOMAIN arr)
    IN  [k \in DOMAIN idx |-> IF idx[k] < 0 THEN arr[idx[k] + N] ELSE arr[idx[k]]]

\* The largest and smallest element (ychunk.max(), ychunk.min(), ...).
MaxOf(sq) == CHOOSE v \in {sq[k] : k \in DOMAIN sq} : \A k \in DOMAIN sq : sq[k] <= v
MinOf(sq) == CHOOSE v \in {sq[k] : k \in DOMAIN sq} : \A k \in DOMAIN sq : v <= sq[k]

\* parameter_guesses of line 193: height, center, width_g, width_l, constant.
ParameterGuesses(xchunk, ychunk) ==
    <<Rat(MaxOf(ychunk) - MinOf(ychunk), 1), Rat(MaxOf(xchunk) - MinOf(xchunk), 2),
      Rat(1, 1), Rat(1, 1), Rat(MinOf(ychunk), 1)>>

\* The number of parameters of pseudoVoigt that opt.curve_fit fits.
NParams == 5

\* What opt.curve_fit can do with a chunk (line 194): it raises TypeError
\* when the chunk has fewer samples than parameters, it raises RuntimeError
\* when the least-squares fit does not converge, or it returns parameters
\* whose last one, the constant, is any value.
FitOutcomes(xchunk) ==
    IF Len(xchunk) < NParams
    THEN { [ok |-> FALSE, err |-> "TypeError", c |-> 0] }
    ELSE { [ok |-> FALSE, err |-> "RuntimeError", c |-> 0] }
         \cup { [ok |-> TRUE, err |-> "none", c |-> c] : c \in 1 .. MaxConst }

\* What follows the fit of chunk k of n (lines 192-195). A fit that raises is
\* not caught, so the call ends there with the exception of the fit; a fit
\* that returns has its constant appended and the loop goes on.
AfterFit_SkipFailed(out, k, n) ==
    [pc |-> IF k = n THEN "interp" ELSE "fit",
     k |-> IF k = n THEN 1 ELSE k + 1,
     append |-> out.ok,
     err |-> NoError]
AfterFit(out, k, n) ==
    IF out.ok
    THEN [pc |-> IF k = n THEN "interp" ELSE "fit",
          k |-> IF k = n THEN 1 ELSE k + 1,
          append |-> TRUE,
          err |-> NoError]
    ELSE [pc |-> "error", k |-> k, append |-> FALSE, err |-> Raised(out.err)]

\* n.asarray(list_of_equal_length_arrays).flatten() (lines 198 and 200).
RECURSIVE Flatten(_)
Flatten(sqs) == IF sqs = <<>> THEN <<>> ELSE Head(sqs) \o Flatten(Tail(sqs))

\* opt_parameters[-1]*n.ones_like(xchunk) (line 195).
ConstantArray(c, xchunk) == [k \in DOMAIN xchunk |-> c]

\* The value of the linear interpolant on the segment j, j+1 of (xp, fp) at x,
\* for xp[j] <= x < xp[j+1].
Lerp(x, xp, fp, j) ==
    IF xp[j] = x THEN Rat(fp[j], 1)
    ELSE Rat(fp[j] * (xp[j + 1] - xp[j]) + (fp[j + 1] - fp[j]) * (x - xp[j]),
             xp[j + 1] - xp[j])

\* Where the search of n.interp(x, xp, fp) can end for a single x: 0 when x
\* is left of xp, Len(xp) when x is at or right of its last element, else a
\* segment j, j+1 holding x. For an increasing xp there is exactly one such
\* place. numpy neither checks that xp is increasing nor defines the result
\* when it is not: several places can then hold x, and which one the search
\* ends on depends on the numpy build.
InterpPlaces(x, xp) ==
    LET L == Len(xp)
    IN  {j \in {0} : x < xp[1]}
        \cup {j \in 1 .. L - 1 : xp[j] <= x /\ x < xp[j + 1]}
        \cup {j \in {L} : x >= xp[L]}

\* The two searches the model lets a numpy build implement: the one that
\* ends on the lowest place holding x, and the one that ends on the highest.
InterpBuilds == {"lowest", "highest"}

\* n.interp(x, xp, fp) for a single x: fp[first] left of xp, fp[last] right of
\* it, the linear interpolant on the segment the search ended on in between.
InterpAt_Step(x, xp, fp, build) ==
    LET places == InterpPlaces(x, xp)
        j == CHOOSE k \in places : \A m \in places : k <= m
    IN  IF j = 0 THEN Rat(fp[1], 1) ELSE Rat(fp[j], 1)   \* no ramp: the value to the left
InterpAt(x, xp, fp, build) ==
    LET places == InterpPlaces(x, xp)
        j == IF build = "lowest"
             THEN CHOOSE k \in places : \A m \in places : k <= m
             ELSE CHOOSE k \in places : \A m \in places : k >= m
    IN  IF j = 0 THEN Rat(fp[1], 1)
        ELSE IF j = Len(xp) THEN Rat(fp[j], 1)
        ELSE Lerp(x, xp, fp, j)

\* The argument check of n.interp: xp must not be empty and fp must have its
\* length.
InterpError(xp, fp) ==
    IF xp = <<>> \/ Len(xp) # Len(fp) THEN "ValueError" ELSE "none"

\* n.interp(xs, xp, fp): one value per element of xs.
Interp(xs, xp, fp, build) ==
    [k \in 1 .. Cardinality(DOMAIN xs) |-> InterpAt(xs[k - 1], xp, fp, build)]

BGFrame == UNCHANGED <<ra_vars, fc_vars, pv_vars, pr_vars, ep_vars, dlg_vars, mc_vars>>

BGInit ==
    /\ bg_pc = "ready"
    /\ \E c \in Curves : xdata = c.x /\ ydata = c.y
    /\ points \in PointLists
    /\ chunk_size \in 1 .. MaxChunk
    /\ xfeatures = <<>>
    /\ bg_k = 0
    /\ chunk_inds = <<>>
    /\ xchunks = <<>>
    /\ ychunks = <<>>
    /\ constants = <<>>
    /\ fits = <<>>
    /\ stdout = <<>>
    /\ background = <<>>
    /\ bg_error = NoError

\* Line 181: the x-positions of the features.
BGFeatures ==
    /\ bg_pc = "ready"
    /\ LET f == XFeatures(points)
       IN  /\ xfeatures' = f.xf
           /\ bg_pc' = f.pc
           /\ bg_error' = f.err
           /\ bg_k' = 1
    /\ UNCHANGED <<xdata, ydata, points, chunk_size, chunk_inds, xchunks, ychunks,
                   constants, fits, stdout, background>>
    /\ BGFrame

\* Lines 183-188: one iteration of the loop over the features.
BGChunk ==
    /\ bg_pc = "chunk"
    /\ LET N == Cardinality(DOMAIN xdata)
       IN  IF N = 0
           THEN \* n.argmin of an empty array
                /\ bg_pc' = "error"
                /\ bg_error' = Raised("ValueError")
                /\ UNCHANGED <<bg_k, chunk_inds, xchunks, ychunks>>
           ELSE LET ind == ArgMin(xdata, xfeatures[bg_k])
                    idx == ChunkInd(ind, chunk_size)
                IN  IF ~IndexInRange(idx, N)
                    THEN /\ bg_pc' = "error"
                         /\ bg_error' = Raised("IndexError")
                         /\ chunk_inds' = Append(chunk_inds, ind)
                         /\ UNCHANGED <<bg_k, xchunks, ychunks>>
                    ELSE /\ chunk_inds' = Append(chunk_inds, ind)
                         /\ xchunks' = Append(xchunks, Take(xdata, idx))
                         /\ ychunks' = Append(ychunks, Take(ydata, idx))
                         /\ bg_k' = IF bg_k = Len(xfeatures) THEN 1 ELSE bg_k + 1
                         /\ bg_pc' = IF bg_k = Len(xfeatures) THEN "fit" ELSE "chunk"
                         /\ UNCHANGED bg_error
    /\ UNCHANGED <<xdata, ydata, points, chunk_size, xfeatures, constants, fits,
                   stdout, background>>
    /\ BGFrame

\* Lines 192-195: one iteration of the loop over the chunks.
BGFit ==
    /\ bg_pc = "fit"
    /\ \E out \in FitOutcomes(xchunks[bg_k]) :
         /\ fits' = Append(fits, [chunk |-> bg_k,
                                   x |-> xchunks[bg_k],
                                   y |-> ychunks[bg_k],
                                   p0 |-> ParameterGuesses(xchunks[bg_k], ychunks[bg_k]),
                                   out |-> out])
         /\ LET a == AfterFit(out, bg_k, Len(xchunks))
            IN  /\ constants' = IF a.append
                                 THEN Append(constants, ConstantArray(out.c, xchunks[bg_k]))
                                 ELSE constants
                /\ bg_pc' = a.pc
                /\ bg_k' = a.k
                /\ bg_error' = a.err
    /\ UNCHANGED <<xdata, ydata, points, chunk_size, xfeatures, chunk_inds, xchunks,
                   ychunks, stdout, background>>
    /\ BGFrame

\* Lines 198-206: the interpolation over xdata, and the return.
BGInterp ==
    /\ bg_pc = "interp"
    /\ LET constant_background == Flatten(constants)
           x_background == Flatten(xchunks)
       IN  /\ stdout' = stdout \o <<constant_background, x_background>>
           /\ IF InterpError(x_background, constant_background) # "none"
              THEN /\ bg_pc' = "error"
                   /\ bg_error' = Raised(InterpError(x_background, constant_background))
                   /\ UNCHANGED background
              ELSE /\ \E build \in InterpBuilds :
                        background' = Interp(xdata, x_background, constant_background, build)
                   /\ bg_pc' = "done"
                   /\ UNCHANGED bg_error
    /\ UNCHANGED <<xdata, ydata, points, chunk_size, xfeatures, bg_k, chunk_inds,
                   xchunks, ychunks, constants, fits>>
    /\ BGFrame

BGNext == BGFeatures \/ BGChunk \/ BGFit \/ BGInterp

\* No call of inelasticBGSubstract is in progress.
BGIdle ==
    /\ bg_pc = "idle"
    /\ xdata = <<>>
    /\ ydata = <<>>
    /\ points = <<>>
    /\ chunk_size = 0
    /\ xfeatures = <<>>
    /\ bg_k = 0
    /\ chunk_inds = <<>>
    /\ xchunks = <<>>
    /\ ychunks = <<>>
    /\ constants = <<>>
    /\ fits = <<>>
    /\ stdout = <<>>
    /\ background = <<>>
    /\ bg_error = NoError

-----------------------------------------------------------------------------
(* fCenter and its cost function circ *)

RatAdd(p, q) == Rat(p.n * q.d + q.n * p.d, p.d * q.d)
RatTimes(p, k) == Rat(p.n * k, p.d)
RatOver(p, k) == Rat(p.n, p.d * k)

\* a < b on floats: every comparison with nan is false.
Less(a, b) ==
    /\ a.kind # "nan" /\ b.kind # "nan"
    /\ a.kind = "num"
    /\ b.kind = "inf" \/ a.n * b.d < b.n * a.d

\* 1/x for a non-negative numpy float: 1/0.0 is inf, 1/nan is nan.
Reciprocal(m) ==
    IF m.kind = "nan" THEN NaN
    ELSE IF m.n = 0 THEN Inf
    ELSE Rat(m.d, m.n)

\* The default scalefactor of circ (line 62). fCenter calls circ without a
\* scalefactor (line 55), so this is the one circ always uses.
CircScale == 20
\* The default scalefactor of fCenter (line 32).
DefaultScale == 20
\* The bound on the residual (line 87).
Tolerance == 10
\* The row cutoff (line 87).
RowCutoff == 550

\* The images the model draws from, of side 0, 2 and RowCutoff + 2 (two rows
\* beyond the cutoff). They are kept as a formula: the value of the pixel at
\* (row i, column j) is a * (1 + ((i + j) % 3)) + b, so that a = 0, b = 0 is
\* an image of zeros.
ImValue(img, p) == img.a * (1 + ((p[1] + p[2]) % 3)) + img.b

FCImages ==
    { [s |-> 0, a |-> 0, b |-> 0], [s |-> 2, a |-> 1, b |-> 0] }
    \cup { [s |-> RowCutoff + 2, a |-> ab[1], b |-> ab[2]] : ab \in { <<0, 0>>, <<1, 0>>, <<1, 1>> } }

\* The guesses the model draws from: circles around the rows at the cutoff.
Guesses == { <<3, RowCutoff - 1, 1>>, <<3, RowCutoff + 1, 2>>, <<20, RowCutoff + 10, 20>> }

Scalefactors == {10, DefaultScale}

\* residual < 10 at the pixel of coordinates (x, y), for the circle of
\* center (c[1], c[2]) and radius c[3] (lines 86-87), the three being
\* rationals: both sides are multiplied by the square of the denominators.
\* The residual is signed: every pixel inside the circle passes the test.
ResidualBelow(x, y, c, tol) ==
    LET dd == c[1].d * c[2].d * c[3].d
        res == (x * c[1].d - c[1].n) * (x * c[1].d - c[1].n) * (c[2].d * c[3].d) * (c[2].d * c[3].d)
               + (y * c[2].d - c[2].n) * (y * c[2].d - c[2].n) * (c[1].d * c[3].d) * (c[1].d * c[3].d)
               - c[3].n * c[3].n * (c[1].d * c[2].d) * (c[1].d * c[2].d)
    IN  res < tol * dd * dd

\* The circle circ works with (line 82): its arguments times its scalefactor.
CircScaled(x) == [k \in 1 .. 3 |-> RatTimes(x[k], CircScale)]

\* n.where(((residual < 10) & (yMat > 550))) (lines 83-87): the grid is
\* n.linspace(1, s, s), so the pixel at (row i, column j) has the coordinates
\* x = j + 1 and y = i + 1.
CircPixels(x, img) ==
    { p \in {i \in 0 .. img.s - 1 : i + 1 > RowCutoff} \X (0 .. img.s - 1) :
        ResidualBelow(p[2] + 1, p[1] + 1, CircScaled(x), Tolerance) }

RECURSIVE SumIm(_, _)
SumIm(S, img) ==
    IF S = {} THEN 0
    ELSE LET p == CHOOSE q \in S : TRUE IN ImValue(img, p) + SumIm(S \ {p}, img)

\* n.mean(im[xvals, yvals]) (line 88): nan, with a warning, when nothing was
\* selected.
MeanOf(S, img) == IF S = {} THEN NaN ELSE Rat(SumIm(S, img), Cardinality(S))

\* circ(x[0], x[1], x[2], im) (lines 62-90).
Circ(x, img) == Reciprocal(MeanOf(CircPixels(x, img), img))

\* What a call of circ sampled.
Sampled(x, img) == IF CircPixels(x, img) = {} THEN "empty" ELSE "pixels"

\* The starting point of the minimizer (line 54): the guess over scalefactor.
\* The module is Python 2 (the print statements of lines 199 and 201), where
\* / between an array of ints and an int is the floor division; as soon as
\* one of them is a float it is the true division.
OptStart(g, sf, ints) ==
    [k \in 1 .. 3 |-> IF ints THEN Rat(g[k] \div sf, 1) ELSE RatOver(Rat(g[k], 1), sf)]

\* The trial points of one step of the minimizer around x: one coordinate
\* moved by one pixel of circ's coordinates, up or down.
TrialPoints(x) ==
    { [x EXCEPT ![k] = RatAdd(x[k], Rat(d, CircScale))] : k \in 1 .. 3, d \in {-1, 1} }

\* The radius fCenter returns (line 59): the guess rg, whatever radius the
\* minimizer reached.
RCenter_Optimized(x, g, sf) == RatTimes(x[3], sf)
RCenter(x, g, sf) == Rat(g[3], 1)

\* The triple fCenter returns (lines 56-60): the minimizer's point times
\* scalefactor, with the radius overridden.
Returned(x, g, sf) == <<RatTimes(x[1], sf), RatTimes(x[2], sf), RCenter(x, g, sf)>>

FCFrame == UNCHANGED <<ra_vars, bg_vars, pv_vars, pr_vars, ep_vars, dlg_vars, mc_vars>>

FCInit ==
    /\ fc_pc = "ready"
    /\ im \in FCImages
    /\ guess \in Guesses
    /\ int_args \in BOOLEAN
    /\ scalefactor \in Scalefactors
    /\ opt_x = <<>>
    /\ opt_f = NaN
    /\ opt_nfev = 0
    /\ opt_success = FALSE
    /\ circ_calls = <<>>
    /\ fc_result = <<>>

\* Lines 54-57: the guess is scaled down and opt.minimize evaluates the cost
\* at its starting point.
FCStart ==
    /\ fc_pc = "ready"
    /\ LET x0 == OptStart(guess, scalefactor, int_args)
       IN  /\ opt_x' = x0
           /\ opt_f' = Circ(x0, im)
           /\ circ_calls' = <<Sampled(x0, im)>>
    /\ opt_nfev' = 1
    /\ fc_pc' = "minimize"
    /\ UNCHANGED <<im, guess, int_args, scalefactor, opt_success, fc_result>>
    /\ FCFrame

\* One step of Nelder-Mead: the cost is evaluated at a trial point, which
\* becomes the best point when its cost is lower.
OptStep ==
    /\ fc_pc = "minimize"
    /\ opt_nfev <= MaxEvals
    /\ \E t \in TrialPoints(opt_x) :
         LET ft == Circ(t, im)
         IN  /\ circ_calls' = Append(circ_calls, Sampled(t, im))
             /\ IF Less(ft, opt_f)
                THEN opt_x' = t /\ opt_f' = ft
                ELSE UNCHANGED <<opt_x, opt_f>>
    /\ opt_nfev' = opt_nfev + 1
    /\ UNCHANGED <<fc_pc, im, guess, int_args, scalefactor, opt_success, fc_result>>
    /\ FCFrame

\* Lines 56-60: opt.minimize returns, converged (which takes finite costs: a
\* difference with nan or inf never passes the tolerance test) or out of
\* evaluations, and fCenter reads .x without looking at .success.
FCReturn ==
    /\ fc_pc = "minimize"
    /\ \/ opt_f.kind = "num" /\ opt_success' = TRUE
       \/ opt_nfev > MaxEvals /\ opt_success' = FALSE
    /\ fc_result' = Returned(opt_x, guess, scalefactor)
    /\ fc_pc' = "returned"
    /\ UNCHANGED <<im, guess, int_args, scalefactor, opt_x, opt_f, opt_nfev, circ_calls>>
    /\ FCFrame

FCNext == FCStart \/ OptStep \/ FCReturn

\* No call of fCenter is in progress.
FCIdle ==
    /\ fc_pc = "idle"
    /\ im = [s |-> 0, a |-> 0, b |-> 0]
    /\ guess = <<0, 0, 0>>
    /\ int_args = FALSE
    /\ scalefactor = DefaultScale
    /\ opt_x = <<>>
    /\ opt_f = NaN
    /\ opt_nfev = 0
    /\ opt_success = FALSE
    /\ circ_calls = <<>>
    /\ fc_result = <<>>

-----------------------------------------------------------------------------
(* Gaussian, Lorentzian and pseudoVoigt, called with Python scalars *)

\* A Python int. A Python float is a Rat (kind "num").
PyInt(v) == [kind |-> "int", n |-> v, d |-> 1]

\* The exception Python raises when the divisor of / is zero, int or float.
ZeroDivisionError == [kind |-> "ZeroDivisionError", n |-> 0, d |-> 0]

BothInts(a, b) == a.kind = "int" /\ b.kind = "int"

\* The arithmetic of Python 2 on two numbers: int with int gives an int,
\* anything with a float gives a float.
PyAdd(a, b) ==
    IF BothInts(a, b) THEN PyInt(a.n + b.n) ELSE Rat(a.n * b.d + b.n * a.d, a.d * b.d)
PySub(a, b) ==
    IF BothInts(a, b) THEN PyInt(a.n - b.n) ELSE Rat(a.n * b.d - b.n * a.d, a.d * b.d)
PyTimes(a, b) ==
    IF BothInts(a, b) THEN PyInt(a.n * b.n) ELSE Rat(a.n * b.n, a.d * b.d)
PyNeg(a) == [a EXCEPT !.n = -a.n]

\* a / b for b >= 0 in Python 2 (the module has no "from __future__ import
\* division"): the floor division when both are ints, the true division
\* otherwise, and ZeroDivisionError when b is zero.
PyDivide(a, b) ==
    IF b.n = 0 THEN ZeroDivisionError
    ELSE IF BothInts(a, b) THEN PyInt(a.n \div b.n)
    ELSE Rat(a.n * b.d, a.d * b.n)

\* n.exp(q): the float 1.0 at q = 0; otherwise the float nearest to e^q,
\* which is kept as the term exp(q).
NExp(q) == IF q.n = 0 THEN Rat(1, 1) ELSE [kind |-> "exp", n |-> q.n, d |-> q.d]

\* Lines 14-17.
Gaussian(x, xc, width_g) ==
    LET exponent == PyDivide(PyNeg(PyTimes(PySub(x, xc), PySub(x, xc))),
                             PyTimes(PyTimes(PyInt(2), width_g), PyTimes(PyInt(2), width_g)))
    IN  IF exponent = ZeroDivisionError THEN ZeroDivisionError ELSE NExp(exponent)

\* Lines 19-22.
Lorentzian(x, xc, width_l) ==
    LET half == PyDivide(width_l, PyInt(2))
        hh   == PyTimes(half, half)
    IN  PyDivide(hh, PyAdd(PyTimes(PySub(x, xc), PySub(x, xc)), hh))

\* Lines 24-26. Where the Gaussian is not 1.0 the value is kept as a term.
pseudoVoigt(x, height, xc, width_g, width_l, constant) ==
    LET g == Gaussian(x, xc, width_g)
        l == Lorentzian(x, xc, width_l)
    IN  IF g = ZeroDivisionError \/ l = ZeroDivisionError THEN ZeroDivisionError
        ELSE IF g.kind = "exp"
             THEN [kind |-> "term", n |-> 0, d |-> 0, height |-> height, g |-> g,
                   l |-> l, constant |-> constant]
             ELSE PyAdd(PyTimes(height, PyAdd(PyTimes(Rat(1, 2), g), PyTimes(Rat(1, 2), l))),
                        constant)

\* The numbers the model draws the arguments from.
Widths == {PyInt(w) : w \in 1 .. MaxWidth} \cup {Rat(w, 2) : w \in 1 .. MaxWidth}
Heights == {PyInt(-1), PyInt(2), Rat(3, 2)}
PeakCenters == {PyInt(0), PyInt(1), Rat(1, 2)}
Offsets == {PyInt(0), PyInt(1)}
Baselines == {PyInt(0), Rat(1, 2)}

PVFrame == UNCHANGED <<ra_vars, bg_vars, fc_vars, pr_vars, ep_vars, dlg_vars, mc_vars>>

PVInit ==
    /\ pv_pc = "ready"
    /\ \E h \in Heights, c \in PeakCenters, o \in Offsets, wg \in Widths, wl \in Widths,
          b \in Baselines :
          pv_args = [x |-> PyAdd(c, o), height |-> h, xc |-> c, width_g |-> wg,
                     width_l |-> wl, constant |-> b]
    /\ pv_result = NaN

\* One call of pseudoVoigt.
PVCall ==
    /\ pv_pc = "ready"
    /\ pv_result' = pseudoVoigt(pv_args.x, pv_args.height, pv_args.xc, pv_args.width_g,
                                pv_args.width_l, pv_args.constant)
    /\ pv_pc' = "done"
    /\ UNCHANGED pv_args
    /\ PVFrame

PVNext == PVCall

\* No call of pseudoVoigt is in progress.
PVIdle ==
    /\ pv_pc = "idle"
    /\ pv_args = [x |-> PyInt(0), height |-> PyInt(0), xc |-> PyInt(0), width_g |-> PyInt(1),
                  width_l |-> PyInt(1), constant |-> PyInt(0)]
    /\ pv_result = NaN

-----------------------------------------------------------------------------
(* parse_range *)

\* The characters of the strings the model draws from.
Chars == {"1", "2", "-", ":", ",", " "}
Digits == {"1", "2"}
Strings == UNION { [1 .. k -> Chars] : k \in 0 .. MaxLen }

\* range_str.replace(' ', '') (line 360).
RECURSIVE RemoveSpaces(_)
RemoveSpaces(str) ==
    IF str = <<>> THEN <<>>
    ELSE IF Head(str) = " " THEN RemoveSpaces(Tail(str))
    ELSE <<Head(str)>> \o RemoveSpaces(Tail(str))

\* str.split(sep) (lines 364, 380): the pieces between the separators, empty
\* pieces included; one piece at least.
RECURSIVE Split(_, _)
Split(str, sep) ==
    IF str = <<>> THEN << <<>> >>
    ELSE LET rest == Split(Tail(str), sep)
         IN  IF Head(str) = sep THEN << <<>> >> \o rest
             ELSE << <<Head(str)>> \o Head(rest) >> \o Tail(rest)

RECURSIVE AllDigits(_)
AllDigits(str) == str = <<>> \/ (Head(str) \in Digits /\ AllDigits(Tail(str)))

\* Whether int(str) succeeds (lines 376, 380), on the characters of the
\* model: an optional sign, then one digit or more.
IsIntLiteral(str) ==
    /\ str # <<>>
    /\ LET body == IF Head(str) = "-" THEN Tail(str) ELSE str
       IN  body # <<>> /\ AllDigits(body)

DigitValue(c) == IF c = "1" THEN 1 ELSE 2

RECURSIVE DigitsValue(_, _)
DigitsValue(str, acc) ==
    IF str = <<>> THEN acc ELSE DigitsValue(Tail(str), 10 * acc + DigitValue(Head(str)))

\* int(str) for a string int accepts.
IntValue(str) ==
    IF Head(str) = "-" THEN -DigitsValue(Tail(str), 0) ELSE DigitsValue(str, 0)

\* range(start, stop + 1) (line 381): the endpoint is included.
RangeList_Exclusive(start, stop) == [k \in 1 .. stop - start |-> start + k - 1]
RangeList(start, stop) == [k \in 1 .. stop + 1 - start |-> start + k - 1]

\* Lines 375-385 for one element: the integers it adds to iterable, or the
\* ValueError the bare except raises for whatever failed in the second try:
\* the unpacking of other than two pieces, an int() that fails, and a range
\* too long for list.extend (OverflowError).
ElemInts_IntOnly(elem) ==
    IF IsIntLiteral(elem) THEN [err |-> "none", ints |-> <<IntValue(elem)>>]
    ELSE [err |-> "ValueError", ints |-> <<>>]
ElemInts(elem) ==
    IF IsIntLiteral(elem) THEN [err |-> "none", ints |-> <<IntValue(elem)>>]
    ELSE LET parts == Split(elem, ":")
         IN  IF Len(parts) # 2 \/ ~IsIntLiteral(parts[1]) \/ ~IsIntLiteral(parts[2])
             THEN [err |-> "ValueError", ints |-> <<>>]
             ELSE LET start == IntValue(parts[1])
                      stop  == IntValue(parts[2])
                  IN  IF stop + 1 - start > MaxListLen
                      THEN [err |-> "ValueError", ints |-> <<>>]
                      ELSE [err |-> "none", ints |-> RangeList(start, stop)]

\* The loop of lines 374-385 over the elements from the k-th on.
RECURSIVE Collect(_, _, _)
Collect(elements, k, iterable) ==
    IF k > Len(elements) THEN [err |-> "none", ints |-> iterable]
    ELSE LET e == ElemInts(elements[k])
         IN  IF e.err # "none" THEN [err |-> e.err, ints |-> <<>>]
             ELSE Collect(elements, k + 1, iterable \o e.ints)

\* parse_range(range_str) (lines 359-387).
ParseRange(str) ==
    LET stripped == RemoveSpaces(str)
    IN  IF stripped = <<>> THEN [kind |-> "list", val |-> <<>>]
        ELSE LET c == Collect(Split(stripped, ","), 1, <<>>)
             IN  IF c.err # "none" THEN [kind |-> c.err, val |-> <<>>]
                 ELSE [kind |-> "list",
                       val |-> SortedSeq({c.ints[k] : k \in 1 .. Len(c.ints)})]

PRFrame == UNCHANGED <<ra_vars, bg_vars, fc_vars, pv_vars, ep_vars, dlg_vars, mc_vars>>

PRInit ==
    /\ pr_pc = "ready"
    /\ range_str \in Strings
    /\ pr_result = [kind |-> "none", val |-> <<>>]

\* One call of parse_range.
PRCall ==
    /\ pr_pc = "ready"
    /\ pr_result' = ParseRange(range_str)
    /\ pr_pc' = "done"
    /\ UNCHANGED range_str
    /\ PRFrame

PRNext == PRCall

\* No call of parse_range is in progress.
PRIdle ==
    /\ pr_pc = "idle"
    /\ range_str = <<>>
    /\ pr_result = [kind |-> "none", val |-> <<>>]

-----------------------------------------------------------------------------
(* ExperimentalParameter: the descriptor of one attribute of one instance *)

PyStr(text) == [kind |-> "str", text |-> text]
PyNone == [kind |-> "NoneType"]

\* The values the model assigns: ints, floats (inf among them), strings that
\* write an integer or do not, and None.
Values ==
    {PyInt(1), PyInt(-2), Rat(3, 2), Rat(-3, 2), Inf, PyStr(<<"1", "2">>), PyStr(<<"-">>), PyNone}

PTypes == {"int", "float"}
Defaults == {PyNone, PyInt(7)}

\* The integer part of the float num/den, towards zero.
Truncated(q) == IF q.n >= 0 THEN q.n \div q.d ELSE -((-q.n) \div q.d)

\* self.type(value) (line 89) for the types int and float: the value the
\* cast returns, or the exception it raises.
Cast(ptype, v) ==
    IF v.kind = "NoneType" THEN [err |-> "TypeError", val |-> v]
    ELSE IF v.kind = "str"
         THEN IF ~IsIntLiteral(v.text) THEN [err |-> "ValueError", val |-> v]
              ELSE [err |-> "none",
                    val |-> IF ptype = "int" THEN PyInt(IntValue(v.text))
                            ELSE Rat(IntValue(v.text), 1)]
    ELSE IF v.kind = "inf"
         THEN IF ptype = "int" THEN [err |-> "OverflowError", val |-> v]
              ELSE [err |-> "none", val |-> v]
    ELSE IF ptype = "int" THEN [err |-> "none", val |-> PyInt(Truncated(v))]
    ELSE [err |-> "none", val |-> Rat(v.n, v.d)]

\* The exception an assignment ends with (lines 88-92): ValueError becomes
\* TypeError, any other exception of the cast leaves __set__ as it is.
SetRaises(ptype, v) ==
    IF Cast(ptype, v).err = "ValueError" THEN "TypeError" ELSE Cast(ptype, v).err

EPFrame == UNCHANGED <<ra_vars, bg_vars, fc_vars, pv_vars, pr_vars, dlg_vars, mc_vars>>

EPInit ==
    /\ ep_pc = "live"
    /\ ep_type \in PTypes
    /\ ep_default \in Defaults
    /\ ep_dict = <<>>
    /\ ep_log = <<>>
    /\ ep_read = <<>>

\* instance.attribute = value: __set__ (lines 86-94).
EPSet ==
    /\ ep_pc = "live"
    /\ Len(ep_log) + Len(ep_read) < MaxOps
    /\ \E value \in Values :
         LET raised == SetRaises(ep_type, value)
             after  == IF raised = "none" THEN <<Cast(ep_type, value).val>> ELSE ep_dict
         IN  /\ ep_dict' = after
             /\ ep_log' = Append(ep_log, [value |-> value, raised |-> raised,
                                          before |-> ep_dict, after |-> after,
                                          reads |-> Len(ep_read)])
    /\ UNCHANGED <<ep_pc, ep_type, ep_default, ep_read>>
    /\ EPFrame

\* instance.attribute: __get__ (lines 81-84).
EPGet ==
    /\ ep_pc = "live"
    /\ Len(ep_log) + Len(ep_read) < MaxOps
    /\ ep_read' = Append(ep_read, [value |-> IF ep_dict = <<>> THEN ep_default ELSE ep_dict[1],
                                   sets |-> Len(ep_log)])
    /\ UNCHANGED <<ep_pc, ep_type, ep_default, ep_dict, ep_log>>
    /\ EPFrame

EPNext == EPSet \/ EPGet

\* No instance with the parameter exists.
EPIdle ==
    /\ ep_pc = "idle"
    /\ ep_type = "int"
    /\ ep_default = PyNone
    /\ ep_dict = <<>>
    /\ ep_log = <<>>
    /\ ep_read = <<>>

-----------------------------------------------------------------------------
(* ProcessingDialog.accept and MaskCreator.composite_mask *)

\* round(num/den) of Python 3, den > 0: a tie goes to the even integer.
RoundHalfEven(num, den) ==
    LET f   == num \div den
        rem == num - f * den
    IN  IF 2 * rem < den THEN f
        ELSE IF 2 * rem > den THEN f + 1
        ELSE IF f % 2 = 0 THEN f ELSE f + 1

\* The shapes of the image, the circular ROIs (position of the corner and
\* size, in pixels) and the rectangular ROIs (the slices getArraySlice
\* returns for them) the model draws from.
Resolutions == (2 .. MaxSide) \X (2 .. MaxSide)
CircROIs == { [x |-> 0, y |-> 0, size |-> 2], [x |-> 1, y |-> 0, size |-> 1] }
RectROIs == { [xs |-> <<0, 1>>, ys |-> <<0, 2>>], [xs |-> <<1, 2>>, ys |-> <<1, 2>>] }

\* np.zeros(self.resolution, dtype = np.bool) (line 119).
AllValid(res) == [p \in (0 .. res[1] - 1) \X (0 .. res[2] - 1) |-> FALSE]

\* The positions (i, j) where rr <= radius (lines 127-136). np.meshgrid of
\* arange(shape[0]) and arange(shape[1]) gives arrays of shape
\* (shape[1], shape[0]) with xx[i, j] = j and yy[i, j] = i; radius is size/2.
CircSelected(res, cm) ==
    LET xc == RoundHalfEven(2 * cm.y + cm.size, 2)
        yc == RoundHalfEven(2 * cm.x + cm.size, 2)
    IN  { p \in (0 .. res[2] - 1) \X (0 .. res[1] - 1) :
            4 * ((p[2] - xc) * (p[2] - xc) + (p[1] - yc) * (p[1] - yc)) <= cm.size * cm.size }

\* mask[rr <= radius] = 1 (line 136): rr has the shape (shape[1], shape[0]),
\* mask the shape (shape[0], shape[1]). numpy from 1.13 on raises IndexError
\* when the two differ; before, the positions selected are used as indices,
\* and one beyond the mask raises IndexError.
CircFails(res, cm, strict) ==
    \/ strict /\ res[1] # res[2]
    \/ \E p \in CircSelected(res, cm) : p[1] >= res[1] \/ p[2] >= res[2]

\* The loop of lines 131-136 from the k-th circular mask on.
RECURSIVE CircLoop(_, _, _, _, _)
CircLoop(mask, res, cms, k, strict) ==
    IF k > Len(cms) THEN [err |-> "none", mask |-> mask]
    ELSE IF CircFails(res, cms[k], strict) THEN [err |-> "IndexError", mask |-> mask]
    ELSE CircLoop([p \in DOMAIN mask |-> mask[p] \/ p \in CircSelected(res, cms[k])],
                  res, cms, k + 1, strict)

\* The loop of lines 138-140 from the k-th rectangular mask on.
RECURSIVE RectLoop(_, _, _)
RectLoop(mask, rms, k) ==
    IF k > Len(rms) THEN mask
    ELSE RectLoop([p \in DOMAIN mask |->
                      \/ mask[p]
                      \/ /\ rms[k].xs[1] <= p[1] /\ p[1] < rms[k].xs[2]
                         /\ rms[k].ys[1] <= p[2] /\ p[2] < rms[k].ys[2]],
                  rms, k + 1)

\* composite_mask() (lines 116-142): invalid pixels are marked TRUE.
CompositeMask(res, cms, rms, strict) ==
    LET c == CircLoop(AllValid(res), res, cms, 1, strict)
    IN  IF c.err # "none" THEN c ELSE [err |-> "none", mask |-> RectLoop(c.mask, rms, 1)]

\* np.logical_not(mask) (line 333).
LogicalNot(mask) == [p \in DOMAIN mask |-> ~mask[p]]

\* What the file dialog returns (line 308) and what the line edit holds
\* (line 315).
FileNames == {"", "scan.hdf5"}
ExcludeTexts == { <<>>, <<"1">>, <<"2", ":", "1", "2">>, <<"1", ",">> }

\* What one invocation of accept does (lines 306-337), as the events it
\* adds for its n-th invocation, in their order.
AcceptEvents(n, filename, text, res, cms, rms, strict) ==
    IF filename = "" THEN <<>>
    ELSE IF ParseRange(text).kind = "ValueError"
         THEN << [call |-> n, ev |-> "error_message_signal", arg |-> text] >>
    ELSE LET m == CompositeMask(res, cms, rms, strict)
         IN  IF m.err # "none"
             THEN << [call |-> n, ev |-> "raised", arg |-> m.err] >>
             ELSE << [call |-> n, ev |-> "processing_parameters_signal",
                      arg |-> [filename |-> filename,
                               exclude_scans |-> ParseRange(text).val,
                               valid_mask |-> LogicalNot(m.mask)]],
                     [call |-> n, ev |-> "accepted", arg |-> filename] >>

\* The state of the dialog after those events.
AfterAccept(evs) ==
    IF evs = <<>> THEN "open"
    ELSE IF evs[Len(evs)].ev = "accepted" THEN "accepted"
    ELSE IF evs[Len(evs)].ev = "raised" THEN "raised"
    ELSE "open"

DLGFrame == UNCHANGED <<ra_vars, bg_vars, fc_vars, pv_vars, pr_vars, ep_vars, mc_vars>>

DLGInit ==
    /\ dlg_pc = "open"
    /\ resolution \in Resolutions
    /\ circ_masks \in {<<>>} \cup { <<c>> : c \in CircROIs }
    /\ rect_masks \in {<<>>} \cup { <<r>> : r \in RectROIs }
    /\ numpy_strict \in BOOLEAN
    /\ dlg_calls = <<>>
    /\ dlg_events = <<>>

\* The slot accept (lines 305-337), run on "Launch processing".
DLGAccept ==
    /\ dlg_pc = "open"
    /\ Len(dlg_calls) < MaxAccepts
    /\ \E filename \in FileNames, text \in ExcludeTexts :
         LET evs == AcceptEvents(Len(dlg_calls) + 1, filename, text, resolution,
                                 circ_masks, rect_masks, numpy_strict)
         IN  /\ dlg_calls' = Append(dlg_calls, [filename |-> filename, text |-> text])
             /\ dlg_events' = dlg_events \o evs
             /\ dlg_pc' = AfterAccept(evs)
    /\ UNCHANGED <<resolution, circ_masks, rect_masks, numpy_strict>>
    /\ DLGFrame

DLGNext == DLGAccept

\* No dialog exists.
DLGIdle ==
    /\ dlg_pc = "idle"
    /\ resolution = <<0, 0>>
    /\ circ_masks = <<>>
    /\ rect_masks = <<>>
    /\ numpy_strict = TRUE
    /\ dlg_calls = <<>>
    /\ dlg_events = <<>>

-----------------------------------------------------------------------------
(* MetaRawDataset and MetaHDF5Dataset: the classes they create *)

Metaclasses == {"MetaRawDataset", "MetaHDF5Dataset"}

\* The class bodies the model draws from: the descriptors they define, by
\* attribute name and class of the descriptor.
Bodies ==
    SUBSET { [name |-> "a", kind |-> "ExperimentalParameter"],
             [name |-> "b", kind |-> "HDF5ExperimentalParameter"] }

\* isinstance(parameter, ...) (lines 27 and 52): HDF5ExperimentalParameter is
\* a subclass of ExperimentalParameter.
IsInstance(kind, m) ==
    IF m = "MetaRawDataset" THEN kind \in {"ExperimentalParameter", "HDF5ExperimentalParameter"}
    ELSE kind = "HDF5ExperimentalParameter"

\* local_valid_metadata (lines 26-27, 51-52).
LocalValidMetadata(body, m) == {d.name : d \in {e \in body : IsInstance(e.kind, m)}}

\* cls.valid_metadata as __init__ finds it (lines 20-21, 45-46): the class
\* body does not define it, so the attribute is the one of the first class
\* of the method resolution order, which is the first base; without a base
\* hasattr is false and it is set to the empty set.
InheritedValidMetadata(bases, cs) ==
    IF bases = <<>> THEN {} ELSE cs[bases[1]].valid_metadata

\* Lines 31-32 and 56-57: inside the metaclass, super() is the metaclass's
\* own parent ABCMeta bound to cls, which has no valid_metadata; the
\* AttributeError is suppressed and the assignment never runs.
SuperValidMetadata(bases, cs) == {}

\* valid_metadata of the new class when __init__ is done (lines 17-32).
ValidMetadata(bases, body, m, cs) ==
    (InheritedValidMetadata(bases, cs) \cup LocalValidMetadata(body, m))
        \cup SuperValidMetadata(bases, cs)

\* The classes a class with these bases derives from, the bases included.
Ancestors(bases, cs) ==
    UNION { {bases[k]} \cup cs[bases[k]].ancestors : k \in 1 .. Len(bases) }

\* The lists of bases a class statement may give: no base, one, or two
\* different ones of which the first is not an ancestor of the second (type
\* finds no method resolution order for those, and no class is created).
BasesLists(cs) ==
    {<<>>} \cup { <<b>> : b \in 1 .. Len(cs) }
          \cup { <<q[1], q[2]>> :
                    q \in { r \in (1 .. Len(cs)) \X (1 .. Len(cs)) :
                              r[1] # r[2] /\ r[1] \notin cs[r[2]].ancestors } }

MCFrame == UNCHANGED <<ra_vars, bg_vars, fc_vars, pv_vars, pr_vars, ep_vars, dlg_vars>>

MCInit ==
    /\ meta \in Metaclasses
    /\ classes = <<>>

\* A class statement: the metaclass's __init__ runs on the new class.
MCNewClass ==
    /\ meta \in Metaclasses
    /\ Len(classes) < MaxClasses
    /\ \E bases \in BasesLists(classes), body \in Bodies :
         classes' = Append(classes,
                           [bases |-> bases, body |-> body,
                            ancestors |-> Ancestors(bases, classes),
                            valid_metadata |-> ValidMetadata(bases, body, meta, classes)])
    /\ UNCHANGED meta
    /\ MCFrame

MCNext == MCNewClass

\* No class was created with the metaclasses.
MCIdle ==
    /\ meta = "none"
    /\ classes = <<>>

-----------------------------------------------------------------------------
(* Specifications: one component each, on every input of the bounds *)

InitCenter == FCInit /\ RAIdle /\ BGIdle /\ PVIdle /\ PRIdle /\ EPIdle /\ DLGIdle /\ MCIdle

SpecCenter == InitCenter /\ [][FCNext]_vars

InitRadial == RAInit /\ BGIdle /\ FCIdle /\ PVIdle /\ PRIdle /\ EPIdle /\ DLGIdle /\ MCIdle

SpecRadial == InitRadial /\ [][RANext]_vars

InitBG == BGInit /\ RAIdle /\ FCIdle /\ PVIdle /\ PRIdle /\ EPIdle /\ DLGIdle /\ MCIdle

SpecBG == InitBG /\ [][BGNext]_vars

InitVoigt == PVInit /\ RAIdle /\ BGIdle /\ FCIdle /\ PRIdle /\ EPIdle /\ DLGIdle /\ MCIdle

SpecVoigt == InitVoigt /\ [][PVNext]_vars

InitParse == PRInit /\ RAIdle /\ BGIdle /\ FCIdle /\ PVIdle /\ EPIdle /\ DLGIdle /\ MCIdle

SpecParse == InitParse /\ [][PRNext]_vars

InitParameter == EPInit /\ RAIdle /\ BGIdle /\ FCIdle /\ PVIdle /\ PRIdle /\ DLGIdle /\ MCIdle

SpecParameter == InitParameter /\ [][EPNext]_vars

InitDialog == DLGInit /\ RAIdle /\ BGIdle /\ FCIdle /\ PVIdle /\ PRIdle /\ EPIdle /\ MCIdle

SpecDialog == InitDialog /\ [][DLGNext]_vars

InitMeta ==
    MCInit /\ RAIdle /\ BGIdle /\ FCIdle /\ PVIdle /\ PRIdle /\ EPIdle /\ DLGIdle

SpecMeta == InitMeta /\ [][MCNext]_vars

-----------------------------------------------------------------------------
(* Properties of radialAverage *)

RECURSIVE SumPx(_, _)
SumPx(S, px) ==
    IF S = {} THEN 0
    ELSE LET p == CHOOSE q \in S : TRUE IN px[p] + SumPx(S \ {p}, px)

\* The pixels the loop has accumulated into the bin of radius r.
InBin(r) == {p \in ra_added : R[p] = r}

\* The pixels the loop has gone through so far.
Visited == {PixelAt(k, image.n) : k \in 0 .. ra_pos - 1}

\* C2: a pixel is accumulated exactly when its row index i is at or below the
\* center's row, the center coordinate the distance computation measures
\* along the row axis (yc, which line 120 subtracts from Y[i,j] = y[i]).
C2_AddedIffAtOrBelowCenterRow ==
    \A p \in Visited : (p \in ra_added) <=> (p[1] >= center[2])

\* C3: every reported intensity is the sum of the pixels accumulated into
\* the bin divided by 1 + their number, a finite value (the divisor is at
\* least 1, so no division by zero).
C3_IntensityIsSumOverOnePlusCount ==
    ra_pc = "done" =>
        \A k \in 1 .. Len(ra_result[1]) :
            LET bin == InBin(ra_result[1][k])
            IN  /\ ra_result[2][k] = Rat(SumPx(bin, image.px), 1 + Cardinality(bin))
                /\ ra_result[2][k].kind = "num"
                /\ bincount[k] >= 1

C3_Witness ==
    /\ ra_pc = "done"
    /\ \E k \in 1 .. Len(ra_result[1]) :
           /\ Cardinality(InBin(ra_result[1][k])) >= 2
           /\ SumPx(InBin(ra_result[1][k]), image.px) > 0

\* The center lies beyond the image by at least the image's side.
FarOutside ==
    \/ center[1] >= 2 * image.n \/ center[1] <= -image.n
    \/ center[2] >= 2 * image.n \/ center[2] <= -image.n

\* C10: radialAverage returns a profile for an image of size 0 (an empty one)
\* and for a center far outside the image; every intensity is a finite
\* number, and a bin that received no pixel has intensity 0.
C10_NoFailureOnDegenerateInput ==
    ra_pc = "done" =>
        /\ Len(ra_result) = 2
        /\ Len(ra_result[1]) = Len(ra_result[2])
        /\ image.n = 0 => ra_result = << <<>>, <<>> >>
        /\ \A k \in 1 .. Len(ra_result[1]) :
              /\ ra_result[2][k].kind = "num"
              /\ InBin(ra_result[1][k]) = {} => ra_result[2][k] = Zero

C10_Witness ==
    /\ ra_pc = "done"
    /\ image.n >= 2
    /\ FarOutside
    /\ \E p \in Pixels(image.n) : image.px[p] > 0
    /\ \E k \in 1 .. Len(ra_result[1]) :
           InBin(ra_result[1][k]) = {} /\ ra_result[2][k] = Zero

\* C11: the returned radii are strictly increasing and non-negative, they are
\* the radii of the image's pixels, and the intensities are as many, the k-th
\* one being the quotient of the k-th sum and count, which hold the pixels
\* accumulated at the k-th radius.
C11_RadiiStrictlyIncreasingAndPaired ==
    ra_pc = "done" =>
        LET radius    == ra_result[1]
            intensity == ra_result[2]
        IN  /\ \A k \in 1 .. Len(radius) - 1 : radius[k] < radius[k + 1]
            /\ \A k \in 1 .. Len(radius) : radius[k] >= 0
            /\ {radius[k] : k \in 1 .. Len(radius)} = {R[p] : p \in Pixels(image.n)}
            /\ Len(intensity) = Len(radius)
            /\ \A k \in 1 .. Len(radius) :
                  /\ accumulation[k] = SumPx(InBin(radius[k]), image.px)
                  /\ bincount[k] = 1 + Cardinality(InBin(radius[k]))
                  /\ intensity[k] = Divide(accumulation[k], bincount[k])

\* A profile of three radii or more from an image whose pixels do not come
\* in the order of their radii, with two bins of different intensity.
C11_Witness ==
    /\ ra_pc = "done"
    /\ Len(ra_result[1]) >= 3
    /\ \E k1, k2 \in 0 .. image.n * image.n - 1 :
           k1 < k2 /\ R[PixelAt(k1, image.n)] > R[PixelAt(k2, image.n)]
    /\ \E k1, k2 \in 1 .. Len(ra_result[2]) : ra_result[2][k1] # ra_result[2][k2]

\* C17: every bin of the returned profile has had one pixel at least
\* accumulated into it.
C17_EveryBinHasAPixel ==
    ra_pc = "done" =>
        \A k \in 1 .. Len(ra_result[1]) : InBin(ra_result[1][k]) # {}

\* C20: the radius of the pixel at (row i, column j) is the distance from
\* the point (j, i) of its indices to the center, rounded to the nearest
\* integer.
C20_RadiusIsIndexDistance ==
    ra_pc \in {"loop", "done"} =>
        \A p \in Pixels(image.n) :
            R[p] = RoundSqrt((p[2] - center[1]) * (p[2] - center[1])
                             + (p[1] - center[2]) * (p[1] - center[2]), 1)

-----------------------------------------------------------------------------
(* Properties of inelasticBGSubstract *)

NSamples == Cardinality(DOMAIN xdata)

\* The window of the k-th feature: the indices ind - chunk_size and
\* ind + chunk_size around the nearest index ind.
WindowLo(k) == chunk_inds[k] - chunk_size
WindowHi(k) == chunk_inds[k] + chunk_size
WindowInBounds(k) == 0 <= WindowLo(k) /\ WindowHi(k) <= NSamples - 1

\* The constant fitted for the k-th chunk, as the float the background holds.
FittedConstant(k) == Rat(constants[k][1], 1)

\* The value at x of the straight line through (x1, c1) and (x2, c2).
Ramp(x, x1, c1, x2, c2) == Rat(c1 * (x2 - x1) + (c2 - c1) * (x - x1), x2 - x1)

\* C4: a feature whose window extends past either end of the curve makes the
\* call fail: no chunk is built for it and no background is returned.
C4_WindowPastTheEndFails ==
    \A k \in 1 .. Len(chunk_inds) :
        ~WindowInBounds(k) =>
            /\ bg_pc = "error"
            /\ Len(xchunks) < k
            /\ background = <<>>

\* Two features in ascending order whose windows lie within the curve and do
\* not overlap, fitted and interpolated.
TwoSeparateFeatures ==
    /\ bg_pc = "done"
    /\ Len(points) = 2
    /\ xfeatures[1] < xfeatures[2]
    /\ WindowInBounds(1) /\ WindowInBounds(2)
    /\ WindowHi(1) < WindowLo(2)

\* C5 as stated: with two features the background is c1 at and below the
\* first feature position, c2 at and above the second, and the linear ramp
\* between the two feature positions strictly in between. (Stated here for
\* the well-formed calls only, where n.interp is given an increasing xp.)
C5_RampBetweenFeaturePositions ==
    TwoSeparateFeatures =>
        \A i \in DOMAIN xdata :
            LET x  == xdata[i]
                f1 == xfeatures[1]
                f2 == xfeatures[2]
                c1 == constants[1][1]
                c2 == constants[2][1]
            IN  /\ x <= f1 => background[i + 1] = Rat(c1, 1)
                /\ x >= f2 => background[i + 1] = Rat(c2, 1)
                /\ (f1 < x /\ x < f2) => background[i + 1] = Ramp(x, f1, c1, f2, c2)

\* C5 as amended: the background is c1 at and below the last sample of the
\* first window, c2 at and above the first sample of the second window, and
\* the linear ramp between those two samples strictly in between.
C5_RampBetweenChunkEdges ==
    TwoSeparateFeatures =>
        \A i \in DOMAIN xdata :
            LET x  == xdata[i]
                e1 == xdata[WindowHi(1)]
                e2 == xdata[WindowLo(2)]
                c1 == constants[1][1]
                c2 == constants[2][1]
            IN  /\ x <= e1 => background[i + 1] = Rat(c1, 1)
                /\ x >= e2 => background[i + 1] = Rat(c2, 1)
                /\ (e1 < x /\ x < e2) => background[i + 1] = Ramp(x, e1, c1, e2, c2)

C5_Witness ==
    /\ TwoSeparateFeatures
    /\ constants[1][1] # constants[2][1]
    /\ \E i \in DOMAIN xdata : WindowHi(1) < i /\ i < WindowLo(2)

\* The smallest and largest x of all the chunks.
HullMin == MinOf(Flatten(xchunks))
HullMax == MaxOf(Flatten(xchunks))

\* C6: the returned background has the length of xdata; left of every chunk
\* it is the constant of the chunk that reaches furthest left, right of every
\* chunk the constant of the chunk that reaches furthest right; with a single
\* feature it is that feature's constant everywhere.
C6_FlatExtrapolation ==
    bg_pc = "done" =>
        /\ Len(background) = NSamples
        /\ \A i \in DOMAIN xdata :
              /\ xdata[i] < HullMin =>
                    \E k \in 1 .. Len(xchunks) :
                        MinOf(xchunks[k]) = HullMin /\ background[i + 1] = FittedConstant(k)
              /\ xdata[i] > HullMax =>
                    \E k \in 1 .. Len(xchunks) :
                        MaxOf(xchunks[k]) = HullMax /\ background[i + 1] = FittedConstant(k)
              /\ Len(points) = 1 => background[i + 1] = FittedConstant(1)

\* The window of samples of arr around the sample nearest to feature x.
WindowOf(arr, x) == Take(arr, ChunkInd(ArgMin(xdata, x), chunk_size))

\* A call that returned used one fitted constant per point, in the order of
\* the points, each fitted on the window of its point.
UsedOneConstantPerPoint ==
    /\ Len(fits) = Len(points)
    /\ Len(constants) = Len(points)
    /\ \A k \in 1 .. Len(points) :
          /\ fits[k].chunk = k
          /\ fits[k].out.ok
          /\ fits[k].x = WindowOf(xdata, points[k][1])
          /\ fits[k].y = WindowOf(ydata, points[k][1])
          /\ constants[k] = ConstantArray(fits[k].out.c, fits[k].x)
    /\ \E build \in InterpBuilds :
          background = Interp(xdata, Flatten(xchunks), Flatten(constants), build)

C9_EmptyFeatureListFails ==
    (points = <<>> /\ bg_pc \notin {"ready", "idle"}) =>
        /\ bg_pc = "error"
        /\ bg_error.kind = "IndexError"
        /\ background = <<>>

C9_Witness ==
    /\ points = <<>>
    /\ bg_pc = "error"
    /\ NSamples = NData

NearestTo(x) ==
    { i \in DOMAIN xdata : \A j \in DOMAIN xdata : Abs(xdata[i] - x) <= Abs(xdata[j] - x) }

\* C21: every fit is made on the 2*chunk_size + 1 consecutive samples of
\* xdata and ydata around the lowest of the indices nearest to the
\* x-position of its feature.
C21_FitsSymmetricWindow ==
    \A k \in 1 .. Len(fits) :
        LET x   == points[fits[k].chunk][1]
            ind == CHOOSE i \in NearestTo(x) : \A j \in NearestTo(x) : i <= j
        IN  /\ chunk_inds[fits[k].chunk] = ind
            /\ Len(fits[k].x) = 2 * chunk_size + 1
            /\ Len(fits[k].y) = 2 * chunk_size + 1
            /\ 0 <= ind - chunk_size
            /\ ind + chunk_size <= NSamples - 1
            /\ \A j \in 1 .. 2 * chunk_size + 1 :
                  /\ fits[k].x[j] = xdata[ind - chunk_size + j - 1]
                  /\ fits[k].y[j] = ydata[ind - chunk_size + j - 1]

-----------------------------------------------------------------------------
(* Properties of fCenter *)

\* C1: when fCenter returns, the third component of the triple is the radius
\* guess rg, whatever radius the minimizer reached; the first two are the
\* minimizer's.
C1_ReturnedRadiusIsGuess ==
    fc_pc = "returned" =>
        /\ fc_result[3] = Rat(guess[3], 1)
        /\ fc_result[1] = RatTimes(opt_x[1], scalefactor)
        /\ fc_result[2] = RatTimes(opt_x[2], scalefactor)

C1_Witness ==
    /\ fc_pc = "returned"
    /\ RatTimes(opt_x[3], scalefactor) # Rat(guess[3], 1)
    /\ opt_success

\* C7: fCenter returns a triple only when the minimizer converged and no
\* call of the cost function sampled an empty set of pixels.
C7_FailurePropagates ==
    fc_pc = "returned" =>
        /\ opt_success
        /\ \A k \in 1 .. Len(circ_calls) : circ_calls[k] # "empty"

\* The pixel of coordinates (x, y) lies on the contour of the circle of
\* center (c[1], c[2]) and radius c[3]: its squared distance to the center
\* differs from the squared radius by less than tol, in absolute value.
OnContour(x, y, c, tol) ==
    LET dd == c[1].d * c[2].d * c[3].d
        res == (x * c[1].d - c[1].n) * (x * c[1].d - c[1].n) * (c[2].d * c[3].d) * (c[2].d * c[3].d)
               + (y * c[2].d - c[2].n) * (y * c[2].d - c[2].n) * (c[1].d * c[3].d) * (c[1].d * c[3].d)
               - c[3].n * c[3].n * (c[1].d * c[2].d) * (c[1].d * c[2].d)
    IN  Abs(res) < tol * dd * dd

\* C18: the pixels the cost function takes the mean of, at the minimizer's
\* current point, are the pixels on the contour of the circle, within the
\* tolerance on either side, whose row lies beyond the cutoff.
C18_SampledPixelsAreTheContour ==
    fc_pc \in {"minimize", "returned"} =>
        CircPixels(opt_x, im) =
            { p \in (0 .. im.s - 1) \X (0 .. im.s - 1) :
                /\ p[1] + 1 > RowCutoff
                /\ OnContour(p[2] + 1, p[1] + 1, CircScaled(opt_x), Tolerance) }

\* C19: the circle the cost function evaluates at the minimizer's starting
\* point is the guess (xg, yg, rg), and the center fCenter returns is the
\* center of the circle the cost function evaluated at the minimizer's point.
C19_ScaleRoundTrip ==
    /\ (fc_pc = "minimize" /\ opt_nfev = 1) =>
          \A k \in 1 .. 3 : CircScaled(opt_x)[k] = Rat(guess[k], 1)
    /\ fc_pc = "returned" =>
          \A k \in 1 .. 2 : fc_result[k] = CircScaled(opt_x)[k]

-----------------------------------------------------------------------------
(* Properties of pseudoVoigt *)

\* The number a stands for, as a float.
AsFloat(a) == Rat(a.n, a.d)

\* C12: evaluated at its center, with positive widths, pseudoVoigt returns
\* height + constant.
C12_PeakValueAtCenter ==
    (pv_pc = "done" /\ AsFloat(pv_args.x) = AsFloat(pv_args.xc)) =>
        pv_result = AsFloat(PyAdd(pv_args.height, pv_args.constant))

-----------------------------------------------------------------------------
(* Properties of parse_range *)

\* The comma-separated elements of the argument, spaces removed.
Elements == Split(RemoveSpaces(range_str), ",")

\* e writes an integer: digits, after an optional sign.
IntegerText(e) ==
    /\ e # <<>>
    /\ \A i \in 2 .. Len(e) : e[i] \in Digits
    /\ e[1] \in Digits \/ (e[1] = "-" /\ Len(e) >= 2)

\* The position of the colon of an element that writes two integers joined
\* by a single colon; there is one at most.
ColonAt(e) ==
    { i \in 1 .. Len(e) : /\ e[i] = ":"
                          /\ IntegerText(SubSeq(e, 1, i - 1))
                          /\ IntegerText(SubSeq(e, i + 1, Len(e))) }

RangeText(e) == ColonAt(e) # {}

\* The integers an element names: the integer itself, or every integer from
\* start to stop, both included.
NamedBy(e) ==
    IF IntegerText(e) THEN {IntValue(e)}
    ELSE UNION { IntValue(SubSeq(e, 1, i - 1)) .. IntValue(SubSeq(e, i + 1, Len(e)))
                 : i \in ColonAt(e) }

\* C14: a returned list is strictly increasing and holds exactly the integers
\* the elements name; it is empty for an empty or all-spaces string.
C14_SortedListOfNamedIntegers ==
    (pr_pc = "done" /\ pr_result.kind = "list") =>
        LET val == pr_result.val
        IN  /\ \A k \in 1 .. Len(val) - 1 : val[k] < val[k + 1]
            /\ RemoveSpaces(range_str) = <<>> => val = <<>>
            /\ RemoveSpaces(range_str) # <<>> =>
                  {val[k] : k \in 1 .. Len(val)} =
                      UNION { NamedBy(Elements[k]) : k \in 1 .. Len(Elements) }

\* A list returned for a range of two integers or more followed by an
\* integer that is not larger than the end of the range.
C14_Witness ==
    /\ pr_pc = "done"
    /\ pr_result.kind = "list"
    /\ Len(Elements) = 2
    /\ RangeText(Elements[1])
    /\ Cardinality(NamedBy(Elements[1])) >= 2
    /\ IntegerText(Elements[2])
    /\ \E v \in NamedBy(Elements[1]) : IntValue(Elements[2]) <= v

\* An element that is neither an integer nor two integers joined by a colon.
Malformed(e) == ~IntegerText(e) /\ ~RangeText(e)

\* An element that names more integers than a list takes.
TooLong(e) == RangeText(e) /\ Cardinality(NamedBy(e)) > MaxListLen

-----------------------------------------------------------------------------
(* Properties of ExperimentalParameter *)

\* The assignments, among the first m, whose value can be cast.
Succeeded(m) == {k \in 1 .. m : Cast(ep_type, ep_log[k].value).err = "none"}

\* The cast value of the most recent of them, or the default.
LastCast(m) ==
    IF Succeeded(m) = {} THEN ep_default
    ELSE LET k == CHOOSE i \in Succeeded(m) : \A j \in Succeeded(m) : j <= i
         IN  Cast(ep_type, ep_log[k].value).val

\* C16: every read returns the cast value of the most recent assignment that
\* succeeded, or the default; an assignment whose value cannot be cast raises
\* TypeError and leaves the stored value as it was.
C16_ReadsLastCastElseTypeError ==
    /\ \A r \in 1 .. Len(ep_read) : ep_read[r].value = LastCast(ep_read[r].sets)
    /\ \A k \in 1 .. Len(ep_log) :
          IF Cast(ep_type, ep_log[k].value).err = "none"
          THEN ep_log[k].raised = "none"
          ELSE ep_log[k].raised = "TypeError" /\ ep_log[k].after = ep_log[k].before

-----------------------------------------------------------------------------
(* Properties of ProcessingDialog.accept *)

\* The events of the n-th invocation of accept, in their order.
EventsOf(n) == SelectSeq(dlg_events, LAMBDA e : e.call = n)

\* C22: an invocation of accept with no file name emits nothing; one with an
\* unparseable text emits error_message_signal once and nothing else; every
\* other one emits processing_parameters_signal once, with the negation of
\* the composite mask as valid_mask, and then accepts the dialog.
C22_AcceptEndsInOneOfThreeWays ==
    \A n \in 1 .. Len(dlg_calls) :
        LET evs == EventsOf(n)
            c   == dlg_calls[n]
        IN  IF c.filename = "" THEN evs = <<>>
            ELSE IF ParseRange(c.text).kind = "ValueError"
                 THEN Len(evs) = 1 /\ evs[1].ev = "error_message_signal"
            ELSE /\ Len(evs) = 2
                 /\ evs[1].ev = "processing_parameters_signal"
                 /\ evs[2].ev = "accepted"
                 /\ \A p \in DOMAIN evs[1].arg.valid_mask :
                       evs[1].arg.valid_mask[p] =
                           ~CompositeMask(resolution, circ_masks, rect_masks,
                                          numpy_strict).mask[p]

-----------------------------------------------------------------------------
(* Properties of the metaclasses *)

\* C23: valid_metadata of every class holds the name of every descriptor of
\* the metaclass's kind defined in its body, and every name of the
\* valid_metadata of each of its bases.
C23_ValidMetadataOfBodyAndBases ==
    \A c \in 1 .. Len(classes) :
        /\ \A d \in classes[c].body :
              IsInstance(d.kind, meta) => d.name \in classes[c].valid_metadata
        /\ \A k \in 1 .. Len(classes[c].bases) :
              classes[classes[c].bases[k]].valid_metadata \subseteq classes[c].valid_metadata

====
